---- MODULE Spec2Model ----
(***************************************************************************)
(* PeriodicKDTree (MDAnalysis.lib.pkdtree): a wrapper around               *)
(* Bio.KDTree._CKDTree that searches with periodic boundary conditions.    *)
(*                                                                         *)
(* Coordinates are integers on a grid.  The code halves the box lengths    *)
(* (extents = box / 2.0); the model keeps the doubled value of every       *)
(* extent, so that each comparison of the code is exact on odd lengths.    *)
(* Distances are compared squared.  Point indices are 0-based, as in the   *)
(* code; sequences of the model are 1-based.                               *)
(***************************************************************************)
EXTENDS Integers, Sequences, FiniteSets

VARIABLES
    box,        \* self.box, normalised: 0 flags a non-periodic axis
    built,      \* self.built
    data,       \* self.kdt: the wrapped points, in the order the tree keeps them
    hits,       \* self.kdt: the indices found by the last search_center_radius
    indices,    \* self._indices
    call,       \* the last call made on the instance
    err,        \* how that call ended: "none" or the exception it raised
    center,     \* the center argument of the last call, if it was a search
    radius,     \* the radius argument of the last call, if it was a search
    queries,    \* the (center, radius) pairs the last call passed to the tree
    centers,    \* the list returned by the last find_centers call
    everBuilt,  \* history: some set_coords call has completed successfully
    thr         \* the concurrent callers of search: position, arguments, locals

vars == <<box, built, data, hits, indices, call, err, center, radius,
          queries, centers, everBuilt, thr>>

---------------------------------------------------------------------------
(* Bounds of the model *)

MaxBox == 4        \* the longest box length
MaxPoints == 2     \* the largest N of a coords array passed to set_coords
MaxRadius == 3     \* the largest radius passed to search
MaxShift == 1      \* the largest |k| of a translation center + k*box

(* Program constants *)

dim == 3           \* self.dim
Limit == 1000000   \* coordinates must lie strictly between -1e6 and 1e6

Axes == 1..dim

---------------------------------------------------------------------------
(* Values *)

\* Python's None and a NumPy index array (or list) held in self._indices
None == [isNone |-> TRUE, arr |-> <<>>]
Arr(s) == [isNone |-> FALSE, arr |-> s]

Range(s) == {s[i] : i \in 1..Len(s)}

VAdd(u, v) == [i \in Axes |-> u[i] + v[i]]

Dist2(u, v) == (u[1] - v[1]) * (u[1] - v[1]) + (u[2] - v[2]) * (u[2] - v[2])
               + (u[3] - v[3]) * (u[3] - v[3])

---------------------------------------------------------------------------
(* __init__ *)

\* self.box = np.where(self.box > 0.0, self.box, 0.0)
\* (an infinite length is set to 0 the line before: it is one more value that
\*  flags a non-periodic axis, as 0 and the negative lengths do)
NormBox(b) == [i \in Axes |-> IF b[i] > 0 THEN b[i] ELSE 0]

\* self.box.any()
BoxAny(b) == \E i \in Axes : b[i] # 0

---------------------------------------------------------------------------
(* Wrapping onto the central cell *)

\* x - np.where(box > 0.0, np.floor(x / box) * box, 0.0), one component.
\* floor(x / b) for b > 0, written out for either sign of x.
Floor(x, b) == IF x >= 0 THEN x \div b ELSE -((-x + b - 1) \div b)

WrapNoFloor(x, b) == IF b > 0 THEN (IF x >= b THEN x - b ELSE x) ELSE x

Wrap1(x, b) == IF b > 0 THEN x - Floor(x, b) * b ELSE x

Wrap(p, b) == [i \in Axes |-> Wrap1(p[i], b[i])]

---------------------------------------------------------------------------
(* find_centers *)

\* extents = self.box / 2.0; extents = np.where(extents > radius, radius, extents)
\* The value is twice the extent of the code.
Extents2(b, r) == [i \in Axes |-> IF b[i] > 2 * r THEN 2 * r ELSE b[i]]

\* displacement = np.zeros(self.dim); displacement[i] = x
Unit(i, x) == [j \in Axes |-> IF j = i THEN x ELSE 0]

\* One pass of the loop over the axes: the displacement appended for axis i, if any
AxisDisplacement(b, wc, e2, i) ==
    IF e2[i] > 0
    THEN IF 2 * (b[i] - wc[i]) < e2[i]
         THEN << Unit(i, -b[i]) >>        \* "lower" image
         ELSE IF 2 * wc[i] < e2[i]
              THEN << Unit(i, b[i]) >>    \* "upper" image
              ELSE << >>
    ELSE << >>

\* for i in range(self.dim): ... displacements.append(displacement)
AxisDisplacements(b, wc, r) ==
    LET e2 == Extents2(b, r)
    IN  AxisDisplacement(b, wc, e2, 1) \o AxisDisplacement(b, wc, e2, 2)
        \o AxisDisplacement(b, wc, e2, 3)

\* for i in range(start+1, len(displacements)):
\*     displacements.append(displacements[start]+displacements[i])
\* The range is fixed when the inner loop starts: stop is len(displacements) then.
RECURSIVE InnerLoop(_, _, _, _)
InnerLoop(d, start, i, stop) ==
    IF i > stop THEN d
    ELSE InnerLoop(Append(d, VAdd(d[start], d[i])), start, i + 1, stop)

\* for start in range(n_displacements - 1, -1, -1): ...
RECURSIVE OuterLoop(_, _)
OuterLoop(d, start) ==
    IF start < 1 THEN d
    ELSE OuterLoop(InnerLoop(d, start, start + 1, Len(d)), start - 1)

\* A loop that pairs the per-axis displacements only: no sum of three
CombinePairsOnly(d) ==
    IF Len(d) > 1
    THEN d \o IF Len(d) = 2 THEN << VAdd(d[1], d[2]) >>
              ELSE << VAdd(d[2], d[3]), VAdd(d[1], d[2]), VAdd(d[1], d[3]) >>
    ELSE d

\* if n_displacements > 1: the combination loop
Combine(d) == IF Len(d) > 1 THEN OuterLoop(d, Len(d)) ELSE d

find_centers(b, c, r) ==
    LET wrapped_center == Wrap(c, b)
        displacements == Combine(AxisDisplacements(b, wrapped_center, r))
    IN  << wrapped_center >>
        \o [j \in 1..Len(displacements) |-> VAdd(wrapped_center, displacements[j])]

---------------------------------------------------------------------------
(* The tree: Bio.KDTree._CKDTree.KDTree, as the class uses it *)

\* kdt.set_data(wrapped_data): the tree keeps the points in an order of its own.
\* ord is a permutation of 1..N; entry j of the tree is point ord[j].
Perms(n) == {f \in [1..n -> 1..n] : \A i, j \in 1..n : f[i] = f[j] => i = j}

kdt_set_data(wrapped, ord) ==
    [j \in 1..Len(wrapped) |-> [idx |-> ord[j] - 1, pt |-> wrapped[ord[j]]]]

\* kdt.search_center_radius(c, radius): the indices of the points within
\* radius of c, in the order of the tree
RECURSIVE kdt_search(_, _, _)
kdt_search(d, c, r) ==
    IF Len(d) = 0 THEN << >>
    ELSE (IF Dist2(d[1].pt, c) <= r * r THEN << d[1].idx >> ELSE << >>)
         \o kdt_search(Tail(d), c, r)

\* kdt.get_indices(): the indices of the last search; None when it found no
\* point, which is the case search() tests with "is None" / "is not None"
kdt_get_indices(h) == IF Len(h) = 0 THEN None ELSE Arr(h)

---------------------------------------------------------------------------
(* search: the pure part *)

\* np.unique: the sorted unique elements
RECURSIVE Ascending(_)
Ascending(S) ==
    IF S = {} THEN << >>
    ELSE LET m == CHOOSE x \in S : \A y \in S : x <= y
         IN  << m >> \o Ascending(S \ {m})

np_unique(s) == Ascending(Range(s))

\* np.sort: insertion of each element into its place
RECURSIVE Insert(_, _)
Insert(x, s) ==
    IF Len(s) = 0 THEN << x >>
    ELSE IF x <= s[1] THEN << x >> \o s ELSE << s[1] >> \o Insert(x, Tail(s))

RECURSIVE np_sort(_)
np_sort(s) == IF Len(s) = 0 THEN << >> ELSE Insert(s[1], np_sort(Tail(s)))

\* The result left as the tree returned it
Unsorted(ind) == ind

\* if self._indices is not None: self._indices = np.sort(np.unique(self._indices))
sort_unique(ind) ==
    IF ind.isNone THEN ind ELSE Arr(np_sort(np_unique(ind.arr)))

\* One pass of the loop over the centers, after search_center_radius(c, radius)
\* has left h in the tree:
\*   if self._indices is None: self._indices = self.kdt.get_indices()
\*   else: np.append(self._indices, np.arange(2))
\* np.append returns a new array, which the code drops: _indices keeps its value.
accumulate(ind, h) == IF ind.isNone THEN kdt_get_indices(h) ELSE ind

\* for c in self.find_centers(center, radius): ...
RECURSIVE search_loop(_, _, _, _, _)
search_loop(d, cs, r, i, ind) ==
    IF i > Len(cs) THEN ind
    ELSE search_loop(d, cs, r, i + 1, accumulate(ind, kdt_search(d, cs[i], r)))

\* self._indices after search(c, r) on a built instance
search_result(b, d, c, r) ==
    sort_unique(search_loop(d, find_centers(b, c, r), r, 1, None))

\* get_indices
get_indices == indices

---------------------------------------------------------------------------
(* Inputs *)

\* The box lengths handed to __init__: negative and zero lengths flag a
\* non-periodic axis
BoxLengths == {-1, 0, MaxBox - 1, MaxBox}
AllBoxInputs == {b \in [Axes -> BoxLengths] : BoxAny(NormBox(b))}
BoxInputs == {b \in AllBoxInputs : b[1] = MaxBox /\ b[2] > 0}

\* Points before wrapping, on the diagonal: -1 lies outside the central cell
PointPool == {<< x, x, x >> : x \in -1..1}

RECURSIVE Flatten(_)
Flatten(rows) == IF Len(rows) = 0 THEN << >> ELSE rows[1] \o Flatten(Tail(rows))

\* A NumPy array: its shape and its elements in row-major order
Array2(rows) == [shape |-> << Len(rows), dim >>, flat |-> Flatten(rows)]

\* coords of shape (N, 3), 1 <= N <= MaxPoints, of distinct points
GoodCoords ==
    {Array2(rows) : rows \in UNION {{f \in [1..n -> PointPool] :
                                        \A i, j \in 1..n : f[i] = f[j] => i = j}
                                    : n \in 1..MaxPoints}}

\* coords the checks of set_coords reject
BadCoords ==
    {[shape |-> << 1, 3 >>, flat |-> << Limit, 0, 0 >>],
     [shape |-> << 1, 3 >>, flat |-> << 0, -Limit, 0 >>],
     [shape |-> << 1, 2 >>, flat |-> << 0, 0 >>],
     [shape |-> << 3 >>, flat |-> << 0, 0, 0 >>],
     [shape |-> << 2 >>, flat |-> << Limit, 0 >>]}

CoordInputs == GoodCoords \cup BadCoords

\* Centers of shape (3,), inside and outside the central cell, and one of shape (2,)
Centers == [Axes -> {-1, 0}]
BadCenter == << 0, 0 >>
Radii == 1..MaxRadius

Threads == {1, 2}
Idle == [t \in Threads |-> [pc |-> "idle", center |-> << 0, 0, 0 >>, radius |-> 0,
                            cs |-> << >>, i |-> 0, ended |-> None]]

---------------------------------------------------------------------------
(* set_coords *)

SeqMin(s) == CHOOSE x \in Range(s) : \A y \in Range(s) : x <= y
SeqMax(s) == CHOOSE x \in Range(s) : \A y \in Range(s) : x >= y

\* coords[i], for coords of shape (N, 3)
Row(coords, i) == [j \in Axes |-> coords.flat[dim * (i - 1) + j]]

\* wrapped_data = coords - np.where(self.box > 0.0, np.floor(coords / self.box) * self.box, 0.0)
wrapped_data(coords, b) == [i \in 1..coords.shape[1] |-> Wrap(Row(coords, i), b)]

\* coords.min() <= -1e6 or coords.max() >= 1e6
RangeError(coords) == SeqMin(coords.flat) <= -Limit \/ SeqMax(coords.flat) >= Limit

\* len(coords.shape) != 2 or coords.shape[1] != self.dim
ShapeError(coords) == Len(coords.shape) # 2 \/ coords.shape[2] # dim

\* set_coords that marks the instance built before it checks its argument
set_coords_marks_first(coords, ord) ==
    /\ call' = "set_coords"
    /\ built' = 1
    /\ IF RangeError(coords) \/ ShapeError(coords)
       THEN /\ err' = IF RangeError(coords) THEN "Range" ELSE "Shape"
            /\ UNCHANGED << data, hits, everBuilt >>
       ELSE /\ data' = kdt_set_data(wrapped_data(coords, box), ord)
            /\ hits' = << >>
            /\ err' = "none"
            /\ everBuilt' = TRUE
    /\ center' = << 0, 0, 0 >>
    /\ radius' = 0
    /\ queries' = << >>
    /\ UNCHANGED << box, indices, centers, thr >>

set_coords(coords, ord) ==
    /\ call' = "set_coords"
    /\ IF RangeError(coords)
       THEN /\ err' = "Range"
            /\ UNCHANGED << built, data, hits, everBuilt >>
       ELSE IF ShapeError(coords)
       THEN /\ err' = "Shape"
            /\ UNCHANGED << built, data, hits, everBuilt >>
       ELSE /\ data' = kdt_set_data(wrapped_data(coords, box), ord)
            /\ hits' = << >>
            /\ built' = 1
            /\ err' = "none"
            /\ everBuilt' = TRUE
    /\ center' = << 0, 0, 0 >>
    /\ radius' = 0
    /\ queries' = << >>
    /\ UNCHANGED << box, indices, centers, thr >>

SetCoords ==
    \E coords \in CoordInputs :
        \E ord \in Perms(coords.shape[1]) :
            set_coords(coords, ord)

---------------------------------------------------------------------------
(* search *)

search(c, r) ==
    /\ call' = "search"
    /\ center' = c
    /\ radius' = r
    /\ IF built = 0
       THEN /\ err' = "NotBuilt"
            /\ queries' = << >>
            /\ UNCHANGED << indices, hits >>
       ELSE IF Len(c) # dim
       THEN /\ err' = "Shape"
            /\ queries' = << >>
            /\ UNCHANGED << indices, hits >>
       ELSE \E cs \in {find_centers(box, c, r)} :
                /\ indices' = sort_unique(search_loop(data, cs, r, 1, None))
                /\ hits' = kdt_search(data, cs[Len(cs)], r)
                /\ queries' = [i \in 1..Len(cs) |-> << cs[i], r >>]
                /\ err' = "none"
    /\ UNCHANGED << box, built, data, centers, everBuilt, thr >>

Search == \E c \in Centers \cup {BadCenter} : \E r \in Radii : search(c, r)

---------------------------------------------------------------------------
(* One instance, called sequentially *)

Init ==
    /\ \E b \in BoxInputs : box = NormBox(b)
    /\ built = 0
    /\ data = << >>
    /\ hits = << >>
    /\ indices = Arr(<< >>)
    /\ call = "init"
    /\ err = "none"
    /\ center = << 0, 0, 0 >>
    /\ radius = 0
    /\ queries = << >>
    /\ centers = << >>
    /\ everBuilt = FALSE
    /\ thr = Idle

Next == SetCoords \/ Search

Spec == Init /\ [][Next]_vars

---------------------------------------------------------------------------
(* find_centers, applied to every box, center and radius of the grid *)

CenterGrid == [Axes -> -1..MaxBox]

InitCenters ==
    /\ \E b \in AllBoxInputs : box = NormBox(b)
    /\ center \in CenterGrid
    /\ radius \in 0..MaxRadius
    /\ built = 0
    /\ data = << >>
    /\ hits = << >>
    /\ indices = Arr(<< >>)
    /\ call = "init"
    /\ err = "none"
    /\ queries = << >>
    /\ centers = << >>
    /\ everBuilt = FALSE
    /\ thr = Idle

FindCenters ==
    /\ call = "init"
    /\ call' = "find_centers"
    /\ centers' = find_centers(box, center, radius)
    /\ UNCHANGED << box, built, data, hits, indices, err, center, radius, queries,
                    everBuilt, thr >>

NextCenters == FindCenters

SpecCenters == InitCenters /\ [][NextCenters]_vars

---------------------------------------------------------------------------
(* Two threads, each in one search call on the same built instance.        *)
(* A thread can be preempted between any two statements of search; a call  *)
(* into the tree is one step.                                              *)

\* The arguments of the two calls
ThreadCenters == {<< 0, 0, 0 >>, << -1, -1, -1 >>}

InitConc ==
    /\ \E b \in BoxInputs : box = NormBox(b)
    /\ \E coords \in GoodCoords : \E ord \in Perms(coords.shape[1]) :
           data = kdt_set_data(wrapped_data(coords, box), ord)
    /\ built = 1
    /\ everBuilt = TRUE
    /\ hits = << >>
    /\ indices = Arr(<< >>)
    /\ call = "set_coords"
    /\ err = "none"
    /\ center = << 0, 0, 0 >>
    /\ radius = 0
    /\ queries = << >>
    /\ centers = << >>
    /\ \E c \in [Threads -> ThreadCenters] : \E r \in [Threads -> Radii] :
           thr = [t \in Threads |-> [pc |-> "start", center |-> c[t], radius |-> r[t],
                                     cs |-> << >>, i |-> 0, ended |-> None]]

\* the checks, self._indices = None, and the call of find_centers
Clear(t) ==
    /\ thr[t].pc = "start"
    /\ built # 0
    /\ Len(thr[t].center) = dim
    /\ indices' = None
    /\ thr' = [thr EXCEPT ![t].pc = "query", ![t].i = 1,
                          ![t].cs = find_centers(box, thr[t].center, thr[t].radius)]
    /\ UNCHANGED << box, built, data, hits, call, err, center, radius, queries,
                    centers, everBuilt >>

\* self.kdt.search_center_radius(c, radius)
Query(t) ==
    /\ thr[t].pc = "query"
    /\ hits' = kdt_search(data, thr[t].cs[thr[t].i], thr[t].radius)
    /\ thr' = [thr EXCEPT ![t].pc = "read"]
    /\ UNCHANGED << box, built, data, indices, call, err, center, radius, queries,
                    centers, everBuilt >>

\* if self._indices is None: self._indices = self.kdt.get_indices() else: ...
Read(t) ==
    /\ thr[t].pc = "read"
    /\ indices' = accumulate(indices, hits)
    /\ thr' = [thr EXCEPT ![t].i = thr[t].i + 1,
                          ![t].pc = IF thr[t].i + 1 > Len(thr[t].cs)
                                    THEN "store" ELSE "query"]
    /\ UNCHANGED << box, built, data, hits, call, err, center, radius, queries,
                    centers, everBuilt >>

\* if self._indices is not None: self._indices = np.sort(np.unique(self._indices))
\* ended is what get_indices returns as the call returns
Store(t) ==
    /\ thr[t].pc = "store"
    /\ indices' = sort_unique(indices)
    /\ thr' = [thr EXCEPT ![t].pc = "done", ![t].ended = sort_unique(indices)]
    /\ UNCHANGED << box, built, data, hits, call, err, center, radius, queries,
                    centers, everBuilt >>

ConcClear == \E t \in Threads : Clear(t)
ConcQuery == \E t \in Threads : Query(t)
ConcRead == \E t \in Threads : Read(t)
ConcStore == \E t \in Threads : Store(t)

NextConc == ConcClear \/ ConcQuery \/ ConcRead \/ ConcStore

SpecConc == InitConc /\ [][NextConc]_vars

---------------------------------------------------------------------------
(* Notions the properties are stated with *)

\* The last call was a search that returned normally
Searched == call = "search" /\ err = "none"

\* The indices get_indices holds, as a set
IndexSet == Range(get_indices.arr)

\* radius is at most half the smallest periodic box length
WithinHalf(r, b) == \A i \in Axes : b[i] > 0 => 2 * r <= b[i]

\* The smallest periodic box length
MinPeriodic(b) ==
    CHOOSE m \in {b[i] : i \in Axes} \ {0} : \A i \in Axes : b[i] > 0 => m <= b[i]

\* The squared distance along axis i between c and the nearest periodic image
\* of p: the minimum over the translations by k box lengths
AxisImageDist2(c, p, b, i) ==
    LET ks == IF b[i] > 0 THEN -(MaxShift + 1)..(MaxShift + 1) ELSE {0}
        d2(k) == (c[i] - p[i] + k * b[i]) * (c[i] - p[i] + k * b[i])
    IN  d2(CHOOSE k \in ks : \A l \in ks : d2(k) <= d2(l))

\* The squared minimum-image distance between c and p
MinImageDist2(c, p, b) ==
    AxisImageDist2(c, p, b, 1) + AxisImageDist2(c, p, b, 2) + AxisImageDist2(c, p, b, 3)

\* The brute-force neighbours of c within r
BruteForce(b, d, c, r) ==
    {d[j].idx : j \in {j \in 1..Len(d) : MinImageDist2(c, d[j].pt, b) <= r * r}}

\* The translations center + k*box
Shifts == [Axes -> -MaxShift..MaxShift]
Shifted(c, k, b) == [i \in Axes |-> c[i] + k[i] * b[i]]

StrictlyAscending(s) == \A i \in 1..Len(s) - 1 : s[i] < s[i + 1]

RECURSIVE Pow2(_)
Pow2(n) == IF n = 0 THEN 1 ELSE 2 * Pow2(n - 1)

\* The vector sum of the displacements d[j], j in S
RECURSIVE SubsetSum(_, _)
SubsetSum(d, S) ==
    IF S = {} THEN [i \in Axes |-> 0]
    ELSE LET j == CHOOSE j \in S : TRUE IN VAdd(d[j], SubsetSum(d, S \ {j}))

\* The points of the central cell (any grid value on a non-periodic axis)
CellPoints(b) ==
    {p \in [Axes -> -1..MaxBox] : \A i \in Axes : b[i] > 0 => (0 <= p[i] /\ p[i] < b[i])}

---------------------------------------------------------------------------
(* Properties *)

\* C1: after search(center, r) with 0 < r <= half the smallest periodic box
\* length, get_indices holds exactly the brute-force set of the points whose
\* minimum-image distance to center is <= r.
SearchEqualsBruteForce ==
    (Searched /\ radius > 0 /\ WithinHalf(radius, box))
        => IndexSet = BruteForce(box, data, center, radius)

\* C2: search issues one tree query per center of find_centers, and the stored
\* result is the union of the indices all of those queries return.
SearchIsUnionOfQueries ==
    Searched =>
        /\ queries = [j \in 1..Len(find_centers(box, center, radius)) |->
                          << find_centers(box, center, radius)[j], radius >>]
        /\ IndexSet = UNION {Range(kdt_search(data, queries[j][1], queries[j][2]))
                             : j \in 1..Len(queries)}

\* C3: after every successful search, the sequence get_indices returns is
\* strictly ascending: sorted and without a repeated index.
ResultStrictlyAscending ==
    Searched => (get_indices.isNone \/ StrictlyAscending(get_indices.arr))

ResultAscendingWitness ==
    /\ Searched
    /\ Len(get_indices.arr) >= 2
    /\ \E j, l \in 1..Len(data) :
           /\ j < l
           /\ data[j].idx > data[l].idx
           /\ {data[j].idx, data[l].idx} \subseteq IndexSet

\* C4: a successful set_coords discards the stored result: before the next
\* search, get_indices holds no index set of an earlier search.
SetCoordsDiscardsResult ==
    (call = "set_coords" /\ err = "none") => IndexSet = {}

\* C5: search fails with the not-built error exactly when no earlier set_coords
\* has completed; a rejected set_coords does not mark the instance built, built
\* never returns to unbuilt, and a failing search leaves the result unchanged.
NotBuiltUntilSetCoordsSucceeds ==
    /\ [](built # 0 <=> everBuilt)
    /\ [][/\ built # 0 => built' # 0
          /\ call' = "search" => (err' = "NotBuilt" <=> ~everBuilt)
          /\ (call' = "search" /\ err' # "none") => indices' = indices]_vars

RejectedSetCoordsWitness ==
    /\ call = "set_coords"
    /\ err \in {"Range", "Shape"}
    /\ built = 0
    /\ ~everBuilt

\* C6: two concurrent search calls on a built instance each end with the
\* index set the call would produce if it ran alone.
ConcurrentSearchAsAlone ==
    \A t \in Threads :
        thr[t].pc = "done"
            => thr[t].ended = search_result(box, data, thr[t].center, thr[t].radius)

\* C7: search(center, r) and search(center + k*box, r) leave the same index
\* set, for every integer vector k.
TranslationInvariance ==
    Searched =>
        \A k \in Shifts :
            get_indices = search_result(box, data, Shifted(center, k, box), radius)

TranslationWitness ==
    /\ Searched
    /\ IndexSet # {}
    /\ \E i \in Axes : box[i] > 0 /\ center[i] < 0

\* C8: when radius exceeds half the smallest periodic box length, no index of
\* a point farther than that half length from every searched center is returned.
RadiusCappedAtHalf ==
    (Searched /\ ~WithinHalf(radius, box)) =>
        \A j \in 1..Len(data) :
            data[j].idx \in IndexSet =>
                \E q \in 1..Len(queries) :
                    4 * Dist2(queries[q][1], data[j].pt)
                        <= MinPeriodic(box) * MinPeriodic(box)

\* C9: for 0 < r <= half the smallest periodic box length, every point of the
\* central cell within minimum-image distance r of the center lies within
\* Euclidean distance r of one of the centers find_centers returns.
CentersCoverMinimumImage ==
    (call = "find_centers" /\ radius > 0 /\ WithinHalf(radius, box)) =>
        \A p \in CellPoints(box) :
            MinImageDist2(center, p, box) <= radius * radius
                => \E j \in 1..Len(centers) : Dist2(centers[j], p) <= radius * radius

====
